---- MODULE Spec2Model ----
(***************************************************************************)
(* ciqx (src/ciqx.py): the build / run / watch orchestration of the        *)
(* Connect IQ terminal IDE.                                                *)
(*                                                                         *)
(*   SpecBuild    CiqxApp.build over GarminCompiler.compile                *)
(*   SpecWatcher  ProjectWatcher.on_modified under a clock                 *)
(*   SpecRun      CiqxApp.run over GarminEmulator.run and a child process  *)
(***************************************************************************)
EXTENDS Integers, Sequences, FiniteSets, TLC

(***************************************************************************)
(* Bounds of the model.                                                    *)
(***************************************************************************)
\* longest config.devices.targets list explored
MaxTargets == 3
\* most file events delivered to one ProjectWatcher
MaxEvents == 3
\* clock ticks (of 0.1 s) explored after the watcher is constructed
Horizon == 10
\* the clock when the watcher is constructed, in ticks (time.time() is the
\* time since 1970, far more than the window)
Epoch == 5
\* most lines the simulator child writes
MaxLines == 2

(***************************************************************************)
(* Program constants.                                                      *)
(***************************************************************************)
\* the 0.5 s of on_modified, in ticks of 0.1 s
Window == 5

\* device identifiers (a part of the DEVICES registry); targets are opaque
TargetIds == {"fenix7", "venu2", "epix2"}
Profiles == {"debug", "release"}

VARIABLES
    \* ---- configuration and toolchain (ConfigService, GarminCompiler) ----
    targets,        \* config.devices.targets, an ordered list
    target,         \* the target argument of build / run
    profile,        \* the profile argument
    build_all,      \* the build_all argument
    sdk_path,       \* TRUE iff _find_sdk found an SDK (sdk_path is not None)
    monkeyc,        \* TRUE iff <sdk>/bin/monkeyc exists
    failing,        \* targets for which the external compiler exits non-zero
    \* ---- CiqxApp.build ----
    bpc,            \* position inside build
    idx,            \* position of the for loop in config.devices.targets
    success_count,
    compiled,       \* compiler invocations so far, in order
    artifacts,      \* the .prg files present in out_dir, as <<target, profile>>
    logged,         \* the logger lines of build / run, in order
    \* ---- ProjectWatcher ----
    now,            \* time.time(), in ticks of 0.1 s
    last_modified,  \* ProjectWatcher.last_modified
    events,         \* the events on_modified has handled, in order
    triggers,       \* the clock at each invocation of the callback, in order
    \* ---- CiqxApp.run, GarminEmulator and the simulator process ----
    rpc,            \* position inside run
    monkeydo,       \* TRUE iff <sdk>/bin/monkeydo exists
    spawned,        \* number of subprocess.Popen calls of GarminEmulator.run
    child,          \* the simulator process: none, running, closed, exited
    pipe,           \* lines the child wrote that run has not read yet
    emitted,        \* every line the child wrote, in order
    console,        \* the [SIM] lines printed, in order
    terminate_sent, \* TRUE once process.terminate() was called
    interrupts,     \* number of KeyboardInterrupts raised in the main thread
    \* ---- CiqxApp.watch and the observer thread ----
    wpc,            \* position of the main thread inside watch
    observer,       \* the Observer thread: unstarted, running, stopping, stopped
    opc,            \* position of the observer thread inside the rebuild callback
    compiling,      \* the threads with a compiler subprocess in progress
    rebuilt,        \* number of rebuild() calls that have returned
    \* ---- the command line (typer) ----
    exit_status     \* exit status of the process, -1 while it runs

buildVars == <<targets, target, profile, build_all, sdk_path, monkeyc, failing,
               bpc, idx, success_count, compiled, artifacts, logged>>

watcherVars == <<now, last_modified, events, triggers>>

runVars == <<rpc, monkeydo, spawned, child, pipe, emitted, console, terminate_sent, interrupts>>

watchVars == <<wpc, observer, opc, compiling, rebuilt>>

cliVars == <<exit_status>>

vars == <<buildVars, watcherVars, runVars, watchVars, cliVars>>

(***************************************************************************)
(* GarminCompiler.compile                                                  *)
(***************************************************************************)
\* the output path out_dir / f"{device}-{profile.value}.prg"
OutputPath(device, prof) == <<device, prof>>

\* subprocess.run(cmd, check=True) returns (exit status 0) for this target
MonkeycExitsZero(device) == device \notin failing

\* the value compile returns
Compile(device) ==
    IF ~sdk_path THEN FALSE
    ELSE IF ~monkeyc THEN FALSE
    ELSE MonkeycExitsZero(device)

\* the line compile logs on its way out
CompileLog(device) ==
    IF ~sdk_path THEN <<[level |-> "error", text |-> "Garmin SDK not found", n |-> 0, m |-> 0]>>
    ELSE IF ~monkeyc THEN <<[level |-> "error", text |-> "monkeyc not found", n |-> 0, m |-> 0]>>
    ELSE IF MonkeycExitsZero(device)
         THEN <<[level |-> "success", text |-> "Built target", n |-> 0, m |-> 0]>>
         ELSE <<[level |-> "error", text |-> "Build failed", n |-> 0, m |-> 0]>>

\* the compiler is only started once the SDK and monkeyc were found
CompilerInvoked(device) == sdk_path /\ monkeyc

\* a successful monkeyc run writes its -o file; a failed one leaves out_dir alone
ArtifactsAfter(device, prof) ==
    IF Compile(device) THEN artifacts \cup {OutputPath(device, prof)} ELSE artifacts

(***************************************************************************)
(* CiqxApp.build                                                           *)
(***************************************************************************)
BuildStart ==
    /\ targets \in UNION {[1..n -> TargetIds] : n \in 0..MaxTargets}
    /\ target \in TargetIds
    /\ profile \in Profiles
    /\ build_all \in BOOLEAN
    /\ sdk_path \in BOOLEAN
    /\ monkeyc \in BOOLEAN
    /\ failing \in SUBSET TargetIds
    /\ bpc = "entry"
    /\ idx = 1
    /\ success_count = 0
    /\ compiled = <<>>
    /\ artifacts = {}
    /\ logged = <<>>

\* a watcher that is constructed and has seen nothing
WatcherStart ==
    /\ now = Epoch
    /\ last_modified = 0
    /\ events = <<>>
    /\ triggers = <<>>

\* no run was asked for
RunIdle ==
    /\ rpc = "idle"
    /\ monkeydo = TRUE
    /\ spawned = 0
    /\ child = "none"
    /\ pipe = <<>>
    /\ emitted = <<>>
    /\ console = <<>>
    /\ terminate_sent = FALSE
    /\ interrupts = 0

\* watch was not called
WatchIdle ==
    /\ wpc = "idle"
    /\ observer = "unstarted"
    /\ opc = "idle"
    /\ compiling = {}
    /\ rebuilt = 0

\* the process has not exited
CliRunning == exit_status = -1

BuildInit == BuildStart /\ WatcherStart /\ RunIdle /\ WatchIdle /\ CliRunning

\* lines 414-415 / 434: the branch on build_all
BuildEnter ==
    /\ bpc = "entry"
    /\ bpc' = IF build_all THEN "loop" ELSE "single"
    /\ success_count' = 0
    /\ idx' = 1
    /\ UNCHANGED <<targets, target, profile, build_all, sdk_path, monkeyc, failing,
                   compiled, artifacts, logged>>
    /\ UNCHANGED <<watcherVars, runVars, watchVars, cliVars>>

\* success_count after one compile
CountEveryCompile(ok, count) == count + 1

NextCount(ok, count) == IF ok THEN count + 1 ELSE count

\* the position of the loop after one compile: the for statement has no break
AbortOnFailure(ok, i) == IF ok THEN i + 1 ELSE Len(targets) + 1

NextIdx(ok, i) == i + 1

\* lines 421-428: one iteration of the for loop
BuildCompile ==
    /\ bpc = "loop"
    /\ idx <= Len(targets)
    /\ LET device == targets[idx]
           ok == Compile(device)
       IN /\ compiled' = Append(compiled, [pos |-> idx, target |-> device,
                                           profile |-> profile, ok |-> ok,
                                           started |-> CompilerInvoked(device)])
          /\ artifacts' = ArtifactsAfter(device, profile)
          /\ logged' = logged \o CompileLog(device)
          /\ success_count' = NextCount(ok, success_count)
          /\ idx' = NextIdx(ok, idx)
    /\ UNCHANGED <<targets, target, profile, build_all, sdk_path, monkeyc, failing, bpc>>
    /\ UNCHANGED <<watcherVars, runVars, watchVars, cliVars>>

\* line 430: the sweep counts as succeeded
SweepSucceeded(count) == count = Len(targets)

\* lines 430-433: the report after the loop
BuildReport ==
    /\ bpc = "loop"
    /\ idx > Len(targets)
    /\ logged' = Append(logged,
            IF SweepSucceeded(success_count)
            THEN [level |-> "success", text |-> "Built all targets", n |-> success_count,
                  m |-> success_count]
            ELSE [level |-> "error", text |-> "Built n/m targets", n |-> success_count,
                  m |-> Len(targets)])
    /\ bpc' = "done"
    /\ UNCHANGED <<targets, target, profile, build_all, sdk_path, monkeyc, failing,
                   idx, success_count, compiled, artifacts>>
    /\ UNCHANGED <<watcherVars, runVars, watchVars, cliVars>>

\* lines 435-436: the single-target branch
BuildSingle ==
    /\ bpc = "single"
    /\ compiled' = Append(compiled, [pos |-> 0, target |-> target,
                                     profile |-> profile, ok |-> Compile(target),
                                     started |-> CompilerInvoked(target)])
    /\ artifacts' = ArtifactsAfter(target, profile)
    /\ logged' = logged \o CompileLog(target)
    /\ bpc' = "done"
    /\ UNCHANGED <<targets, target, profile, build_all, sdk_path, monkeyc, failing,
                   idx, success_count>>
    /\ UNCHANGED <<watcherVars, runVars, watchVars, cliVars>>

BuildNext == BuildEnter \/ BuildCompile \/ BuildReport \/ BuildSingle

SpecBuild == BuildInit /\ [][BuildNext]_vars

(***************************************************************************)
(* Claims about the build-all sweep.                                       *)
(***************************************************************************)
\* F: the targets for which the compiler fails
FailSet == {t \in TargetIds : ~Compile(t)}

\* the positions of a list whose target is not in F
GoodPositions(T) == {i \in 1..Len(T) : T[i] \notin FailSet}

\* C1: in a build-all sweep the compiler is invoked for the targets in exactly
\* the order of the target list, one invocation per position, and the success
\* count equals the number of positions whose target is not in F; after every
\* iteration this holds of the part of the list already done, and at the end
\* of the whole list.
C1_OrderAndCount ==
    (build_all /\ bpc \in {"loop", "done"}) =>
        /\ Len(compiled) = idx - 1
        /\ \A i \in 1..Len(compiled) : compiled[i].target = targets[i]
        /\ success_count = Cardinality(GoodPositions(SubSeq(targets, 1, idx - 1)))
        /\ bpc = "done" =>
              /\ [i \in 1..Len(compiled) |-> compiled[i].target] = targets
              /\ success_count = Cardinality(GoodPositions(targets))

\* a finished sweep of a list with a repeated target, a failing and a passing one
C1_Witness ==
    /\ build_all /\ bpc = "done"
    /\ Len(targets) = 3
    /\ targets[1] = targets[3]
    /\ targets[1] \in FailSet
    /\ targets[2] \notin FailSet
    /\ success_count = 1

\* C2: a failed compile never aborts a build-all sweep (every position of the
\* list is compiled exactly once, the later ones included), and the sweep is
\* reported as succeeded iff every compile succeeded, otherwise as failed with
\* the number of succeeded targets out of the total.
C2_NoAbortAndReport ==
    (build_all /\ bpc = "done") =>
        /\ \A p \in 1..Len(targets) :
              Cardinality({i \in 1..Len(compiled) : compiled[i].pos = p}) = 1
        /\ Len(compiled) = Len(targets)
        /\ Len(logged) > 0
        /\ LET last == logged[Len(logged)]
               oks == {i \in 1..Len(compiled) : compiled[i].ok}
           IN /\ (last.level = "success") <=> (\A i \in 1..Len(compiled) : compiled[i].ok)
              /\ last.level # "success" =>
                    /\ last.level = "error"
                    /\ last.text = "Built n/m targets"
                    /\ last.n = Cardinality(oks)
                    /\ last.m = Len(targets)

\* targets = ["fenix7", "venu2"], the compiler fails only for the first of a
\* longer list: the later targets were still compiled, the report is n/m
C2_Witness ==
    /\ build_all /\ bpc = "done"
    /\ Len(targets) >= 2
    /\ ~compiled[1].ok
    /\ compiled[1].started
    /\ compiled[Len(targets)].ok
    /\ logged[Len(logged)].level = "error"
    /\ logged[Len(logged)].n = Len(targets) - 1

(***************************************************************************)
(* ProjectWatcher                                                          *)
(***************************************************************************)
\* the patterns CiqxApp.watch hands to the watcher; a pattern and a path are
\* the sequences of their parts
Patterns == << <<"source", "**", "*.mc">>, <<"resources", "**", "*">>, <<"manifest.xml">> >>

\* file names that end in ".mc"
McNames == {"a.mc"}

\* fnmatch of one path part against one pattern part: "*" and "**" match any
\* one part, "*.mc" a name ending in .mc, anything else itself
FnMatch(name, pat) ==
    CASE pat \in {"*", "**"} -> TRUE
      [] pat = "*.mc" -> name \in McNames
      [] OTHER -> name = pat

\* PurePath.match with a relative pattern: the pattern is matched, part by
\* part, against the last parts of the path
PathMatch(path, pattern) ==
    /\ Len(path) >= Len(pattern)
    /\ \A k \in 1..Len(pattern) :
          FnMatch(path[Len(path) - Len(pattern) + k], pattern[k])

\* the events the observer delivers: src_path and is_directory
EventKinds ==
    { [src_path |-> <<"source", "sub", "a.mc">>, is_directory |-> FALSE],
      [src_path |-> <<"resources", "sub", "manifest.xml">>, is_directory |-> FALSE],
      [src_path |-> <<"build", "x.prg">>, is_directory |-> FALSE],
      [src_path |-> <<"resources", "sub", "drawables">>, is_directory |-> TRUE] }

\* line 315: now - self.last_modified < 0.5
DebounceOff(t, last) == FALSE

DebounceTenfold(t, last) == t - last < 10 * Window

Debounced(t, last) == t - last < Window

\* lines 321-324: the number of callback invocations of the for loop from
\* pattern i on; the loop breaks at the first match
RECURSIVE CallsWithoutBreak(_, _)
CallsWithoutBreak(path, i) ==
    IF i > Len(Patterns) THEN 0
    ELSE IF PathMatch(path, Patterns[i]) THEN 1 + CallsWithoutBreak(path, i + 1)
    ELSE CallsWithoutBreak(path, i + 1)

RECURSIVE CallsInLoop(_, _)
CallsInLoop(path, i) ==
    IF i > Len(Patterns) THEN 0
    ELSE IF PathMatch(path, Patterns[i]) THEN 1
    ELSE CallsInLoop(path, i + 1)

\* lines 308-324: on_modified, the whole handler, at clock value `now`
OnModified(event) ==
    /\ Len(events) < MaxEvents
    /\ LET returnsEarly == event.is_directory \/ Debounced(now, last_modified)
           calls == IF returnsEarly THEN 0 ELSE CallsInLoop(event.src_path, 1)
       IN /\ last_modified' = IF returnsEarly THEN last_modified ELSE now
          /\ events' = Append(events, [time |-> now, event |-> event, calls |-> calls])
          /\ triggers' = triggers \o [k \in 1..calls |-> now]
    /\ UNCHANGED now
    /\ UNCHANGED <<buildVars, runVars, watchVars, cliVars>>

\* the clock advances between two events
Tick ==
    /\ now < Epoch + Horizon
    /\ now' = now + 1
    /\ UNCHANGED <<last_modified, events, triggers>>
    /\ UNCHANGED <<buildVars, runVars, watchVars, cliVars>>

\* no build is in progress
BuildIdle ==
    /\ targets = <<>>
    /\ target = "fenix7"
    /\ profile = "debug"
    /\ build_all = FALSE
    /\ sdk_path = TRUE
    /\ monkeyc = TRUE
    /\ failing = {}
    /\ bpc = "done"
    /\ idx = 1
    /\ success_count = 0
    /\ compiled = <<>>
    /\ artifacts = {}
    /\ logged = <<>>

WatcherInit == WatcherStart /\ BuildIdle /\ RunIdle /\ WatchIdle /\ CliRunning

WatcherNext == Tick \/ \E event \in EventKinds : OnModified(event)

SpecWatcher == WatcherInit /\ [][WatcherNext]_vars

(***************************************************************************)
(* Claims about ProjectWatcher.                                            *)
(***************************************************************************)
\* an eligible event: not a directory event, and its path matches a pattern
Eligible(event) ==
    /\ ~event.is_directory
    /\ \E i \in 1..Len(Patterns) : PathMatch(event.src_path, Patterns[i])

\* the patterns a path matches
Matching(path) == {i \in 1..Len(Patterns) : PathMatch(path, Patterns[i])}

\* the events so far are one burst of eligible events, each less than the
\* window after the one before
IsBurst ==
    /\ Len(events) >= 1
    /\ \A i \in 1..Len(events) : Eligible(events[i].event)
    /\ \A i \in 2..Len(events) : events[i].time - events[i - 1].time < Window

\* C3: a burst of eligible events, each less than the window after the one
\* before, invokes the callback exactly once, however long the burst lasts.
C3_BurstTriggersOnce == IsBurst => Len(triggers) = 1

\* C4: any two invocations of the callback are at least the window apart.
C4_TriggersWindowApart ==
    \A k \in 1..Len(triggers) : \A l \in 1..Len(triggers) :
        k < l => triggers[l] - triggers[k] >= Window

\* two invocations, with an event in between that the window swallowed
C4_Witness ==
    /\ Len(triggers) = 2
    /\ Len(events) = 3
    /\ Eligible(events[2].event)
    /\ events[2].calls = 0

\* C5: two eligible events more than the window apart, and no other event,
\* invoke the callback exactly twice.
C5_TwoSpacedEventsTwice ==
    ( /\ Len(events) = 2
      /\ Eligible(events[1].event)
      /\ Eligible(events[2].event)
      /\ events[2].time - events[1].time > Window ) => Len(triggers) = 2

C5_Witness ==
    /\ Len(events) = 2
    /\ Eligible(events[1].event)
    /\ Eligible(events[2].event)
    /\ events[2].time - events[1].time = Window + 1
    /\ triggers = <<events[1].time, events[2].time>>

RECURSIVE FiringTimes(_)
FiringTimes(evs) ==
    IF evs = <<>> THEN <<>>
    ELSE LET e == Head(evs)
         IN [k \in 1..e.calls |-> e.time] \o FiringTimes(Tail(evs))

C7_NoChangeLost ==
    ( /\ Len(events) >= 1
      /\ now - events[Len(events)].time > Window
      /\ \A i \in 1..Len(events) : Eligible(events[i].event) ) =>
        \A i \in 1..Len(events) :
            Eligible(events[i].event) =>
                \E k \in 1..Len(triggers) : triggers[k] >= events[i].time

\* C8: the callback is invoked only for an event that is not a directory
\* event and whose path matches a pattern, and at most once per event.
C8_OnlyEligibleOnce ==
    \A i \in 1..Len(events) :
        /\ events[i].calls <= 1
        /\ events[i].calls > 0 =>
              /\ ~events[i].event.is_directory
              /\ Matching(events[i].event.src_path) # {}
        /\ events[i].event.is_directory => events[i].calls = 0
        /\ Matching(events[i].event.src_path) = {} => events[i].calls = 0

\* a directory event whose path matches a pattern, a file that matches none,
\* and a file that matches two patterns and invoked the callback once
C8_Witness ==
    /\ Len(events) = 3
    /\ events[1].event.is_directory
    /\ Matching(events[1].event.src_path) # {}
    /\ ~events[2].event.is_directory
    /\ Matching(events[2].event.src_path) = {}
    /\ Cardinality(Matching(events[3].event.src_path)) = 2
    /\ events[3].calls = 1
    /\ Len(triggers) = 1

\* C9: an event that is not eligible leaves last_modified unchanged.
C9_IneligibleLeavesDebounceState ==
    [][ ( /\ Len(events') = Len(events) + 1
          /\ ~Eligible(events'[Len(events')].event) )
        => last_modified' = last_modified ]_vars

(***************************************************************************)
(* GarminEmulator.run, CiqxApp.run and the simulator process               *)
(***************************************************************************)
\* the text of a line the child writes, as its characters (the newline that
\* ends it is left out)
LineSet == { <<"a">>, <<" ", "a">>, <<"a", " ">>, <<>> }

\* str.strip: the line without its leading and trailing blanks
RECURSIVE LStrip(_)
LStrip(line) ==
    IF line # <<>> /\ Head(line) = " " THEN LStrip(Tail(line)) ELSE line

RECURSIVE RStrip(_)
RStrip(line) ==
    IF line # <<>> /\ line[Len(line)] = " "
    THEN RStrip(SubSeq(line, 1, Len(line) - 1)) ELSE line

Strip(line) == RStrip(LStrip(line))

\* the file run looks for: out_dir / f"{target}-{profile.value}.prg"
AppPath == OutputPath(target, profile)

\* lines 448: app_path.exists()
IgnoreArtifact(files) == TRUE

\* the launch decided from the outcome of the build instead of the file
LaunchOnBuildSuccess(files) == compiled # <<>> /\ compiled[Len(compiled)].ok

AppExists(files) == AppPath \in files

\* lines 225-230: GarminEmulator.run raises RuntimeError
EmulatorRaises == ~sdk_path \/ ~monkeydo

\* a run of the default arguments, over any toolchain and any out_dir
RunStart ==
    /\ rpc = "entry"
    /\ monkeydo \in BOOLEAN
    /\ spawned = 0
    /\ child = "none"
    /\ pipe = <<>>
    /\ emitted = <<>>
    /\ console = <<>>
    /\ terminate_sent = FALSE
    /\ interrupts = 0
    /\ targets = <<"fenix7", "venu2">>
    /\ target \in TargetIds
    /\ profile \in Profiles
    /\ build_all = FALSE
    /\ sdk_path \in BOOLEAN
    /\ monkeyc \in BOOLEAN
    /\ failing \in SUBSET {target}
    /\ bpc = "idle"
    /\ idx = 1
    /\ success_count = 0
    /\ compiled = <<>>
    /\ artifacts \in SUBSET {OutputPath(target, profile)}
    /\ logged = <<>>

RunInit == RunStart /\ WatcherStart /\ WatchIdle /\ CliRunning

\* line 441: self.build(target, profile)
RunCallBuild ==
    /\ rpc = "entry"
    /\ rpc' = "building"
    /\ bpc' = "entry"
    /\ UNCHANGED <<targets, target, profile, build_all, sdk_path, monkeyc, failing,
                   idx, success_count, compiled, artifacts, logged>>
    /\ UNCHANGED <<monkeydo, spawned, child, pipe, emitted, console, terminate_sent, interrupts>>
    /\ UNCHANGED <<watcherVars, watchVars, cliVars>>

\* lines 444-450: build has returned; the artifact check
RunCheckArtifact ==
    /\ rpc = "building"
    /\ bpc = "done"
    /\ IF AppExists(artifacts)
       THEN /\ rpc' = "launch"
            /\ logged' = logged
       ELSE /\ rpc' = "returned"
            /\ logged' = Append(logged, [level |-> "error", text |-> "App not found",
                                         n |-> 0, m |-> 0])
    /\ UNCHANGED <<targets, target, profile, build_all, sdk_path, monkeyc, failing,
                   bpc, idx, success_count, compiled, artifacts>>
    /\ UNCHANGED <<monkeydo, spawned, child, pipe, emitted, console, terminate_sent, interrupts>>
    /\ UNCHANGED <<watcherVars, watchVars, cliVars>>

\* lines 452-453 with 223-238: emulator.run raises, or spawns the simulator
RunLaunch ==
    /\ rpc = "launch"
    /\ IF EmulatorRaises
       THEN /\ rpc' = "raised"
            /\ UNCHANGED <<spawned, child, logged>>
       ELSE /\ rpc' = "spawned"
            /\ spawned' = spawned + 1
            /\ child' = "running"
            /\ logged' = Append(logged, [level |-> "info", text |-> "Running app",
                                         n |-> 0, m |-> 0])
    /\ UNCHANGED <<targets, target, profile, build_all, sdk_path, monkeyc, failing,
                   bpc, idx, success_count, compiled, artifacts>>
    /\ UNCHANGED <<monkeydo, pipe, emitted, console, terminate_sent, interrupts>>
    /\ UNCHANGED <<watcherVars, watchVars, cliVars>>

\* line 456: the try statement is entered
RunEnterTry ==
    /\ rpc = "spawned"
    /\ rpc' = "stream"
    /\ UNCHANGED <<monkeydo, spawned, child, pipe, emitted, console, terminate_sent, interrupts>>
    /\ UNCHANGED <<buildVars, watcherVars, watchVars, cliVars>>

\* lines 461-462: what is printed for a line readline returned; the line is
\* never the empty string (its newline is part of it), so it is always printed
PrintedUnlessBlank(output) == IF Strip(output) = <<>> THEN <<>> ELSE <<Strip(output)>>

Printed(output) == <<Strip(output)>>

\* lines 458-462: readline returns a line, which is printed stripped
RunForwardLine ==
    /\ rpc = "stream"
    /\ pipe # <<>>
    /\ console' = console \o Printed(Head(pipe))
    /\ pipe' = Tail(pipe)
    /\ UNCHANGED <<rpc, monkeydo, spawned, child, emitted, terminate_sent, interrupts>>
    /\ UNCHANGED <<buildVars, watcherVars, watchVars, cliVars>>

\* line 459: readline returned '' (end of input: the child closed its output
\* or exited, and every line was read) and process.poll() is not None
BreakOnEmptyRead == pipe = <<>> /\ child \in {"closed", "exited"}

LoopBreaks == pipe = <<>> /\ child = "exited"

\* lines 458-460: the break of the streaming loop
RunLoopExit ==
    /\ rpc = "stream"
    /\ LoopBreaks
    /\ rpc' = "returned"
    /\ UNCHANGED <<monkeydo, spawned, child, pipe, emitted, console, terminate_sent, interrupts>>
    /\ UNCHANGED <<buildVars, watcherVars, watchVars, cliVars>>

\* KeyboardInterrupt raised in run outside the try statement: it leaves run
RunInterruptedOutsideTry ==
    /\ rpc \in {"building", "launch", "spawned", "handler", "terminate"}
    /\ rpc' = "interrupted"
    /\ bpc' = IF bpc \in {"entry", "single", "loop"} THEN "aborted" ELSE bpc
    /\ interrupts' = interrupts + 1
    /\ UNCHANGED <<targets, target, profile, build_all, sdk_path, monkeyc, failing,
                   idx, success_count, compiled, artifacts, logged>>
    /\ UNCHANGED <<monkeydo, spawned, child, pipe, emitted, console, terminate_sent>>
    /\ UNCHANGED <<watcherVars, watchVars, cliVars>>

\* line 463: KeyboardInterrupt raised inside the try statement
RunInterruptedInTry ==
    /\ rpc = "stream"
    /\ rpc' = "handler"
    /\ interrupts' = interrupts + 1
    /\ UNCHANGED <<monkeydo, spawned, child, pipe, emitted, console, terminate_sent>>
    /\ UNCHANGED <<buildVars, watcherVars, watchVars, cliVars>>

\* line 464
RunLogStopping ==
    /\ rpc = "handler"
    /\ rpc' = "terminate"
    /\ logged' = Append(logged, [level |-> "info", text |-> "Stopping simulator...",
                                 n |-> 0, m |-> 0])
    /\ UNCHANGED <<targets, target, profile, build_all, sdk_path, monkeyc, failing,
                   bpc, idx, success_count, compiled, artifacts>>
    /\ UNCHANGED <<monkeydo, spawned, child, pipe, emitted, console, terminate_sent, interrupts>>
    /\ UNCHANGED <<watcherVars, watchVars, cliVars>>

\* line 465: process.terminate()
RunTerminate ==
    /\ rpc = "terminate"
    /\ rpc' = "returned"
    /\ terminate_sent' = TRUE
    /\ UNCHANGED <<monkeydo, spawned, child, pipe, emitted, console, interrupts>>
    /\ UNCHANGED <<buildVars, watcherVars, watchVars, cliVars>>

\* the simulator writes a line to its output
ChildWrite(line) ==
    /\ child = "running"
    /\ Len(emitted) < MaxLines
    /\ emitted' = Append(emitted, line)
    /\ pipe' = Append(pipe, line)
    /\ UNCHANGED <<rpc, monkeydo, spawned, child, console, terminate_sent, interrupts>>
    /\ UNCHANGED <<buildVars, watcherVars, watchVars, cliVars>>

\* the simulator closes its output and lives on
ChildCloseOutput ==
    /\ child = "running"
    /\ child' = "closed"
    /\ UNCHANGED <<rpc, monkeydo, spawned, pipe, emitted, console, terminate_sent, interrupts>>
    /\ UNCHANGED <<buildVars, watcherVars, watchVars, cliVars>>

\* the simulator exits, by itself or on the signal of terminate()
ChildExit ==
    /\ child \in {"running", "closed"}
    /\ child' = "exited"
    /\ UNCHANGED <<rpc, monkeydo, spawned, pipe, emitted, console, terminate_sent, interrupts>>
    /\ UNCHANGED <<buildVars, watcherVars, watchVars, cliVars>>

RunNext ==
    \/ RunCallBuild
    \/ BuildEnter
    \/ BuildSingle
    \/ RunCheckArtifact
    \/ RunLaunch
    \/ RunEnterTry
    \/ RunForwardLine
    \/ RunLoopExit
    \/ RunInterruptedOutsideTry
    \/ RunInterruptedInTry
    \/ RunLogStopping
    \/ RunTerminate
    \/ \E line \in LineSet : ChildWrite(line)
    \/ ChildCloseOutput
    \/ ChildExit

SpecRun == RunInit /\ [][RunNext]_vars

(***************************************************************************)
(* Claims about CiqxApp.run.                                               *)
(***************************************************************************)
\* C10: when the artifact file is absent after the build step, run reports
\* the error and returns without calling the emulator: nothing is spawned.
C10_NoArtifactNoSpawn ==
    AppPath \notin artifacts =>
        /\ spawned = 0
        /\ child = "none"
        /\ rpc \notin {"launch", "spawned", "stream", "handler", "terminate", "raised"}
        /\ rpc = "returned" =>
              /\ Len(logged) > 0
              /\ logged[Len(logged)].level = "error"
              /\ logged[Len(logged)].text = "App not found"

\* the compiler ran and failed, no artifact was there, and run has returned
C10_Witness ==
    /\ rpc = "returned"
    /\ AppPath \notin artifacts
    /\ Len(compiled) = 1
    /\ compiled[1].started
    /\ ~compiled[1].ok
    /\ spawned = 0
    /\ logged[Len(logged)].text = "App not found"

\* C11: an interrupt that arrives while the spawned simulator is live has
\* termination requested before run is left: run is never left, after one
\* interrupt, with a simulator that is alive and was never asked to terminate.
C11_InterruptTerminatesChild ==
    ( /\ interrupts = 1
      /\ rpc \in {"returned", "interrupted"}
      /\ child \in {"running", "closed"} ) => terminate_sent

\* the lines of a sequence, each stripped
StripAll(lines) == [i \in 1..Len(lines) |-> Strip(lines[i])]

\* C12 as stated: after an uninterrupted run the lines printed are exactly the
\* lines the child wrote.
C12_ConsoleIsEmitted ==
    (interrupts = 0 /\ rpc = "returned" /\ spawned > 0) => console = emitted

\* C12 as amended: the lines printed are the lines the child wrote, each
\* without its leading and trailing blanks: what is printed and what is still
\* unread make up what was written, in order, and after an uninterrupted run
\* every line written was printed once.
C12_ConsoleIsEmittedStripped ==
    /\ console \o StripAll(pipe) = StripAll(emitted)
    /\ (interrupts = 0 /\ rpc = "returned" /\ spawned > 0) =>
          /\ pipe = <<>>
          /\ Len(console) = Len(emitted)
          /\ \A i \in 1..Len(emitted) : console[i] = Strip(emitted[i])

\* an uninterrupted run whose child wrote an indented line and an empty line
C12_Witness ==
    /\ interrupts = 0
    /\ rpc = "returned"
    /\ emitted = << <<" ", "a">>, <<>> >>
    /\ console = << <<"a">>, <<>> >>

\* the main thread keeps running: a streaming loop that can read a line or
\* break does so
SpecRunFair ==
    /\ RunInit
    /\ [][RunNext]_vars
    /\ WF_vars(RunForwardLine)
    /\ WF_vars(RunLoopExit)

\* C20: without an interrupt the streaming loop is only left when the output
\* gave end of input and the child has exited, and once the child has exited
\* and its output is drained the loop ends.
C20_LoopExit ==
    /\ []((interrupts = 0 /\ rpc = "returned" /\ spawned > 0) =>
            (pipe = <<>> /\ child = "exited"))
    /\ ((rpc = "stream" /\ child = "exited" /\ pipe = <<>>) ~> (rpc # "stream"))

\* an uninterrupted run whose child wrote all its lines and exited, and whose
\* loop then ended with every line printed
C20_Witness ==
    /\ interrupts = 0
    /\ rpc = "returned"
    /\ child = "exited"
    /\ Len(emitted) = MaxLines
    /\ Len(console) = MaxLines

(***************************************************************************)
(* The build command of the command line                                   *)
(***************************************************************************)
\* lines 522-529 and 552-553: the command function calls ciqx.build, whose
\* value (None) it drops, and returns; typer then ends the process with
\* status 0
CliBuildExit ==
    /\ bpc = "done"
    /\ exit_status = -1
    /\ exit_status' = 0
    /\ UNCHANGED <<buildVars, watcherVars, runVars, watchVars>>

CliBuildNext == BuildNext \/ CliBuildExit

SpecCliBuild == BuildInit /\ [][CliBuildNext]_vars

\* C18: the exit status of `build --all` is zero if every target's compile
\* succeeded and non-zero if any failed.
C18_ExitStatusReflectsSweep ==
    (build_all /\ exit_status # -1) =>
        ((exit_status = 0) <=> (\A i \in 1..Len(compiled) : compiled[i].ok))

(***************************************************************************)
(* CiqxApp.watch: the main thread and the observer thread                  *)
(***************************************************************************)
\* the file events delivered while watch runs
WatchEventKinds == { [src_path |-> <<"source", "sub", "a.mc">>, is_directory |-> FALSE] }

\* a watch of the default target and profile; the SDK is installed with its
\* compiler or not at all, monkeydo and the artifact in out_dir vary freely
WatchInit ==
    /\ wpc = "entry"
    /\ observer = "unstarted"
    /\ opc = "idle"
    /\ compiling = {}
    /\ rebuilt = 0
    /\ rpc = "idle"
    /\ monkeydo \in BOOLEAN
    /\ spawned = 0
    /\ child = "none"
    /\ pipe = <<>>
    /\ emitted = <<>>
    /\ console = <<>>
    /\ terminate_sent = FALSE
    /\ interrupts = 0
    /\ targets = <<"fenix7", "venu2">>
    /\ target = "fenix7"
    /\ profile = "debug"
    /\ build_all = FALSE
    /\ sdk_path \in BOOLEAN
    /\ monkeyc = sdk_path
    /\ failing \in SUBSET {target}
    /\ bpc = "idle"
    /\ idx = 1
    /\ success_count = 0
    /\ compiled = <<>>
    /\ artifacts \in SUBSET {OutputPath(target, profile)}
    /\ logged = <<>>
    /\ WatcherStart
    /\ CliRunning

\* lines 469-480: the two log lines, the watcher, and observer.start()
WatchStartObserver ==
    /\ wpc = "entry"
    /\ wpc' = "started"
    /\ observer' = "running"
    /\ logged' = logged \o <<[level |-> "info", text |-> "Starting watch mode", n |-> 0, m |-> 0],
                             [level |-> "info", text |-> "Press Ctrl+C to stop", n |-> 0, m |-> 0]>>
    /\ UNCHANGED <<targets, target, profile, build_all, sdk_path, monkeyc, failing,
                   bpc, idx, success_count, compiled, artifacts>>
    /\ UNCHANGED <<opc, compiling, rebuilt>>
    /\ UNCHANGED <<watcherVars, runVars, cliVars>>

\* the try statement is left without the initial run
WatchSkipRun ==
    /\ wpc = "started"
    /\ wpc' = "sleeping"
    /\ UNCHANGED <<observer, opc, compiling, rebuilt>>
    /\ UNCHANGED <<buildVars, watcherVars, runVars, cliVars>>

\* lines 482-484: the try statement is entered and self.run is called
WatchCallRun ==
    /\ wpc = "started"
    /\ wpc' = "running"
    /\ rpc' = "entry"
    /\ UNCHANGED <<monkeydo, spawned, child, pipe, emitted, console, terminate_sent, interrupts>>
    /\ UNCHANGED <<observer, opc, compiling, rebuilt>>
    /\ UNCHANGED <<buildVars, watcherVars, cliVars>>

\* line 436 with 203: the compile of the initial build starts its subprocess
MainCompileBegin ==
    /\ rpc = "building"
    /\ bpc = "single"
    /\ bpc' = "compiling"
    /\ compiling' = IF CompilerInvoked(target) THEN compiling \cup {"main"} ELSE compiling
    /\ UNCHANGED <<targets, target, profile, build_all, sdk_path, monkeyc, failing,
                   idx, success_count, compiled, artifacts, logged>>
    /\ UNCHANGED <<wpc, observer, opc, rebuilt>>
    /\ UNCHANGED <<watcherVars, runVars, cliVars>>

\* line 436 with 203-208: the subprocess has ended and compile returns
MainCompileEnd ==
    /\ rpc = "building"
    /\ bpc = "compiling"
    /\ bpc' = "done"
    /\ compiling' = compiling \ {"main"}
    /\ compiled' = Append(compiled, [pos |-> 0, target |-> target,
                                     profile |-> profile, ok |-> Compile(target),
                                     started |-> CompilerInvoked(target)])
    /\ artifacts' = ArtifactsAfter(target, profile)
    /\ logged' = logged \o CompileLog(target)
    /\ UNCHANGED <<targets, target, profile, build_all, sdk_path, monkeyc, failing,
                   idx, success_count>>
    /\ UNCHANGED <<wpc, observer, opc, rebuilt>>
    /\ UNCHANGED <<watcherVars, runVars, cliVars>>

\* KeyboardInterrupt raised while the initial compile is in progress:
\* subprocess.run kills the compiler and the interrupt leaves build and run
MainCompileInterrupted ==
    /\ rpc = "building"
    /\ bpc = "compiling"
    /\ bpc' = "aborted"
    /\ rpc' = "interrupted"
    /\ interrupts' = interrupts + 1
    /\ compiling' = compiling \ {"main"}
    /\ UNCHANGED <<targets, target, profile, build_all, sdk_path, monkeyc, failing,
                   idx, success_count, compiled, artifacts, logged>>
    /\ UNCHANGED <<monkeydo, spawned, child, pipe, emitted, console, terminate_sent>>
    /\ UNCHANGED <<wpc, observer, opc, rebuilt>>
    /\ UNCHANGED <<watcherVars, cliVars>>

\* line 484 has returned: the loop of lines 487-488 is entered
WatchRunReturned ==
    /\ wpc = "running"
    /\ rpc = "returned"
    /\ wpc' = "sleeping"
    /\ UNCHANGED <<observer, opc, compiling, rebuilt>>
    /\ UNCHANGED <<buildVars, watcherVars, runVars, cliVars>>

\* line 484 raised the RuntimeError of GarminEmulator.run: the except clause
\* of line 489 does not catch it and it leaves watch
WatchRunRaised ==
    /\ wpc = "running"
    /\ rpc = "raised"
    /\ wpc' = "raised"
    /\ UNCHANGED <<observer, opc, compiling, rebuilt>>
    /\ UNCHANGED <<buildVars, watcherVars, runVars, cliVars>>

\* line 489: a KeyboardInterrupt that left run is caught
WatchCatchInterrupt ==
    /\ wpc = "running"
    /\ rpc = "interrupted"
    /\ wpc' = "stopping"
    /\ UNCHANGED <<observer, opc, compiling, rebuilt>>
    /\ UNCHANGED <<buildVars, watcherVars, runVars, cliVars>>

\* lines 487-489: KeyboardInterrupt raised while the main thread sleeps
WatchInterruptedIdle ==
    /\ wpc = "sleeping"
    /\ wpc' = "stopping"
    /\ interrupts' = interrupts + 1
    /\ UNCHANGED <<rpc, monkeydo, spawned, child, pipe, emitted, console, terminate_sent>>
    /\ UNCHANGED <<observer, opc, compiling, rebuilt>>
    /\ UNCHANGED <<buildVars, watcherVars, cliVars>>

\* line 490: observer.stop()
WatchStopObserver ==
    /\ wpc = "stopping"
    /\ wpc' = "logstop"
    /\ observer' = IF observer = "running" THEN "stopping" ELSE observer
    /\ UNCHANGED <<opc, compiling, rebuilt>>
    /\ UNCHANGED <<buildVars, watcherVars, runVars, cliVars>>

\* line 491
WatchLogStopped ==
    /\ wpc = "logstop"
    /\ wpc' = "joining"
    /\ logged' = Append(logged, [level |-> "info", text |-> "Watch mode stopped",
                                 n |-> 0, m |-> 0])
    /\ UNCHANGED <<targets, target, profile, build_all, sdk_path, monkeyc, failing,
                   bpc, idx, success_count, compiled, artifacts>>
    /\ UNCHANGED <<observer, opc, compiling, rebuilt>>
    /\ UNCHANGED <<watcherVars, runVars, cliVars>>

\* observer.join() returns
JoinWithoutWaiting == TRUE

JoinReturns == observer = "stopped"

\* line 492: observer.join() returns once the observer thread has ended
WatchJoin ==
    /\ wpc = "joining"
    /\ JoinReturns
    /\ wpc' = "returned"
    /\ UNCHANGED <<observer, opc, compiling, rebuilt>>
    /\ UNCHANGED <<buildVars, watcherVars, runVars, cliVars>>

\* KeyboardInterrupt raised in watch outside the try statement (before it,
\* inside the except clause, or in observer.join()): it leaves watch
WatchInterruptedEscapes ==
    /\ wpc \in {"entry", "started", "stopping", "logstop", "joining"}
    /\ wpc' = "interrupted"
    /\ interrupts' = interrupts + 1
    /\ UNCHANGED <<rpc, monkeydo, spawned, child, pipe, emitted, console, terminate_sent>>
    /\ UNCHANGED <<observer, opc, compiling, rebuilt>>
    /\ UNCHANGED <<buildVars, watcherVars, cliVars>>

\* the observer thread hands an event to on_modified; it does so only after
\* the callback of the event before has returned
ObsDispatch(event) ==
    /\ observer = "running"
    /\ opc = "idle"
    /\ rebuilt = Len(triggers)
    /\ OnModified(event)

\* the simulator processes after the rebuild callback: rebuild only builds
\* ("Could also restart emulator here")
RestartInRebuild(n) == n + 1

SpawnedAfterRebuild(n) == n

\* lines 472-474 with 436 and 203: the callback logs and starts the compile
ObsRebuildBegin ==
    /\ opc = "idle"
    /\ rebuilt < Len(triggers)
    /\ opc' = "compiling"
    /\ compiling' = IF CompilerInvoked(target) THEN compiling \cup {"observer"} ELSE compiling
    /\ logged' = Append(logged, [level |-> "info", text |-> "Files changed, rebuilding...",
                                 n |-> 0, m |-> 0])
    /\ UNCHANGED <<targets, target, profile, build_all, sdk_path, monkeyc, failing,
                   bpc, idx, success_count, compiled, artifacts>>
    /\ UNCHANGED <<wpc, observer, rebuilt>>
    /\ UNCHANGED <<watcherVars, runVars, cliVars>>

\* lines 474-475 with 203-208: the compile ends and the callback returns
ObsRebuildEnd ==
    /\ opc = "compiling"
    /\ opc' = "idle"
    /\ rebuilt' = rebuilt + 1
    /\ compiling' = compiling \ {"observer"}
    /\ compiled' = Append(compiled, [pos |-> 0, target |-> target,
                                     profile |-> profile, ok |-> Compile(target),
                                     started |-> CompilerInvoked(target)])
    /\ artifacts' = ArtifactsAfter(target, profile)
    /\ logged' = logged \o CompileLog(target)
    /\ spawned' = SpawnedAfterRebuild(spawned)
    /\ UNCHANGED <<targets, target, profile, build_all, sdk_path, monkeyc, failing,
                   bpc, idx, success_count>>
    /\ UNCHANGED <<rpc, monkeydo, child, pipe, emitted, console, terminate_sent, interrupts>>
    /\ UNCHANGED <<wpc, observer>>
    /\ UNCHANGED <<watcherVars, cliVars>>

\* the observer thread ends after stop(), once the event in hand is done
ObsThreadExit ==
    /\ observer = "stopping"
    /\ opc = "idle"
    /\ rebuilt = Len(triggers)
    /\ observer' = "stopped"
    /\ UNCHANGED <<wpc, opc, compiling, rebuilt>>
    /\ UNCHANGED <<buildVars, watcherVars, runVars, cliVars>>

\* the clock advances by a whole window
ClockJump ==
    /\ now + Window <= Epoch + Horizon
    /\ now' = now + Window
    /\ UNCHANGED <<last_modified, events, triggers>>
    /\ UNCHANGED <<buildVars, runVars, watchVars, cliVars>>

WatchNext ==
    \/ WatchStartObserver
    \/ WatchCallRun
    \/ RunCallBuild
    \/ BuildEnter
    \/ MainCompileBegin
    \/ MainCompileEnd
    \/ MainCompileInterrupted
    \/ RunCheckArtifact
    \/ RunLaunch
    \/ RunEnterTry
    \/ RunForwardLine
    \/ RunLoopExit
    \/ (bpc # "compiling" /\ RunInterruptedOutsideTry)
    \/ RunInterruptedInTry
    \/ RunLogStopping
    \/ RunTerminate
    \/ ChildWrite(<<"a">>)
    \/ ChildCloseOutput
    \/ ChildExit
    \/ WatchRunReturned
    \/ WatchRunRaised
    \/ WatchCatchInterrupt
    \/ WatchInterruptedIdle
    \/ WatchStopObserver
    \/ WatchLogStopped
    \/ WatchJoin
    \/ WatchInterruptedEscapes
    \/ \E event \in WatchEventKinds : ObsDispatch(event)
    \/ ObsRebuildBegin
    \/ ObsRebuildEnd
    \/ ObsThreadExit
    \/ ClockJump

SpecWatch == WatchInit /\ [][WatchNext]_vars

(***************************************************************************)
(* Claims about watch                                                      *)
(***************************************************************************)
\* C13: compilation is never parallel: at every instant of a watch session
\* at most one external compiler invocation is in progress, counting the
\* initial build of the main thread and the rebuilds of the observer thread.
\* The code starts the observer before the initial build, so a file saved
\* during that build starts a second compiler beside the first.
C13_OneCompilerAtATime == Cardinality(compiling) <= 1

\* the compiles made by the main thread (those not made by the callback)
MainCompiles == Len(compiled) - rebuilt

\* C14 as stated: no rebuild trigger is invoked before the initial build+run
\* cycle of watch has completed.
C14_NoTriggerBeforeInitialCycle ==
    Len(triggers) > 0 => wpc \notin {"entry", "started", "running"}

\* C14 as the code has it: the observer is started first, so it is running
\* for the whole initial cycle and triggers may be invoked during it; the
\* main thread performs exactly one build+run cycle, and it has returned
\* before the idle loop is entered.
C14_OneCycleAfterObserverStart ==
    /\ wpc = "running" => observer = "running"
    /\ wpc = "sleeping" => (rpc = "returned" /\ MainCompiles = 1 /\ spawned <= 1)
    /\ MainCompiles <= 1

\* a rebuild has been made while the simulator of the initial cycle streams
C14_Witness ==
    wpc = "running" /\ rpc = "stream" /\ rebuilt >= 1 /\ MainCompiles = 1

\* what C15 asks of each step: an interrupt in the idle loop is caught and
\* leads to the observer being stopped, watch returns only when the observer
\* thread has ended, and after the return no callback runs
C15_Step ==
    /\ (wpc = "sleeping" /\ interrupts' # interrupts) => wpc' = "stopping"
    /\ (wpc = "stopping" /\ wpc' = "logstop") => observer' \in {"stopping", "stopped"}
    /\ (wpc # "returned" /\ wpc' = "returned") => observer = "stopped"
    /\ wpc = "returned" =>
          /\ wpc' = "returned"
          /\ UNCHANGED <<events, triggers, rebuilt, opc, compiling, compiled, observer>>

\* C15: a user interrupt during the idle loop of watch stops the observer;
\* watch returns normally, and only after the observer thread has ended;
\* once watch has returned no trigger callback is invoked any more.
C15_IdleInterruptStopsAndJoins ==
    /\ [](wpc = "returned" =>
            (observer = "stopped" /\ opc = "idle" /\ rebuilt = Len(triggers)))
    /\ [][C15_Step]_vars

\* watch has returned after a single interrupt, taken in the idle loop (the
\* run returned by itself and no terminate was sent), with a rebuild made
C15_Witness ==
    /\ wpc = "returned"
    /\ interrupts = 1
    /\ rpc = "returned"
    /\ ~terminate_sent
    /\ rebuilt >= 1
    /\ observer = "stopped"

\* C16: a second user interrupt that arrives after cleanup has started (in
\* the interrupt handler of run before terminate is done, or in watch during
\* observer.stop, the log line or observer.join) does not escape as an
\* uncaught error.  Neither handler guards itself: the interrupt leaves run
\* before process.terminate, and leaves watch before the observer is joined.
C16_SecondInterruptContained ==
    [][ (interrupts' = interrupts + 1
         /\ (rpc \in {"handler", "terminate"} \/ wpc \in {"stopping", "logstop", "joining"}))
        => (rpc' # "interrupted" /\ wpc' # "interrupted") ]_vars

\* C17: at every instant of a session at most one simulator process spawned
\* by it is live, for any number of rebuild triggers: the session spawns a
\* simulator once, in the initial run, and a rebuild spawns none.
C17_OneSimulator ==
    /\ spawned <= 1
    /\ child # "none" => spawned = 1

\* two rebuilds have been made while the one simulator is alive
C17_Witness == spawned = 1 /\ child = "running" /\ rebuilt >= 2

\* C19: a precondition failure of the simulator launch while the artifact
\* exists is reported by run, which returns; no exception leaves run or
\* watch.  GarminEmulator.run raises RuntimeError and nothing catches it.
C19_LaunchFailureContained ==
    /\ rpc # "raised"
    /\ wpc # "raised"

(***************************************************************************)
(* Claim about the launch decision of run                                  *)
(***************************************************************************)
\* run has ended without a user interrupt
RunEndedUninterrupted == interrupts = 0 /\ rpc \in {"returned", "raised"}

\* the build of this run failed
BuildFailed == compiled # <<>> /\ ~compiled[Len(compiled)].ok

\* C21 as stated: the simulator is spawned exactly when the artifact exists
\* after build returns.
C21_SpawnedIffArtifact ==
    RunEndedUninterrupted => ((spawned = 1) <=> (AppPath \in artifacts))

\* C21 as the code has it: run decides from the existence of the artifact
\* after the build attempt, not from the build's outcome, whether to attempt
\* the launch; the attempt spawns the simulator exactly when the SDK and
\* monkeydo are found, and raises otherwise.  So a failed compile with a
\* stale artifact still launches, and one with no artifact never does.
C21_LaunchFollowsArtifact ==
    /\ rpc \in {"launch", "raised", "spawned", "stream", "handler", "terminate"}
          => AppPath \in artifacts
    /\ RunEndedUninterrupted =>
          /\ (spawned = 1) <=> (AppPath \in artifacts /\ ~EmulatorRaises)
          /\ (rpc = "raised") <=> (AppPath \in artifacts /\ EmulatorRaises)
    /\ (BuildFailed /\ AppPath \notin artifacts) => spawned = 0

\* the compile failed, a stale artifact was there, and the simulator ran
C21_Witness ==
    /\ RunEndedUninterrupted
    /\ BuildFailed
    /\ AppPath \in artifacts
    /\ spawned = 1
    /\ child = "exited"

====
